---- MODULE Spec2Model ----
(***************************************************************************)
(* Collective Learning Network of restaurant-voice-team.                   *)
(*                                                                         *)
(* Model of src/src/intelligence/CollectiveIntelligence.js: the agent mesh *)
(* (this.agents), the stores of this.brain and the report handlers called  *)
(* by processAgentCommunication.                                           *)
(*                                                                         *)
(* Numbers: effectiveness is kept in percent (0.7 is 70), severity in      *)
(* tenths (0.9 is 9), duration in minutes.  A confidence is kept as the    *)
(* exact quotient num/den of the JavaScript division, den = 0 included     *)
(* (the division then yields Infinity and raises nothing).                 *)
(*                                                                         *)
(* Helpers that CollectiveIntelligence.js calls but does not define        *)
(* (findSimilarPatterns, calculateEffectiveness, updateCrisisPlaybook,     *)
(* distributeTraining, createSOP, syncAgentKnowledge, extractBestPractice,  *)
(* notifyRelevantAgents, broadcastEmotionalLearning) are modelled from      *)
(* sections 4.1 to 4.5 of the design document.                             *)
(***************************************************************************)
EXTENDS Integers, Sequences, FiniteSets, TLC

\* ------------------------------------------------------------------ bounds
MaxReports == 5
MaxInteractions == 2
MaxProfileUpdates == 11
MaxEmotionalReads == 3
MaxSubmissions == 3
MaxCollaborations == 3
MaxHistory == 4
MaxHistoryDays == 2
MaxSlots == 5
MaxConnections == 4
MaxPreferenceUpdates == 2

\* the agents that connect to the mesh, and the agentId the HTTP endpoints
\* of server.js report under without a mesh connection
AgentIds == {"sophia", "marcus", "isabella"}
ApiAgent == "api"
SourceIds == AgentIds \cup {ApiAgent}
Actions == {"offer_dessert", "suggest_wine"}
Conditions == {"happy", "neutral"}
CrisisTypes == {"kitchen_fire", "power_outage"}
Severities == {7, 9}
Durations == {5, 30}
\* a field the report does not carry reads as undefined
Undefined == "undefined"
Situations == {"birthday", "complaint"}
SituationInputs == Situations \cup {Undefined}
Satisfactions == {80, 90}
Customers == {"c1", "c2"}
Sentiments == {-1, 1}
Detected == {"angry", "angry_vip"}
Responses == {"apology", "vip_apology"}
EffectivenessSamples == {40, 90}
\* data.agents, data.task and the success reported in data.outcome, in percent
Teams == {<<"sophia", "marcus">>, <<"marcus", "isabella">>,
          <<"sophia", "marcus", "isabella">>}
Tasks == {"banquet", "rush"}
Successes == {85, 90}
\* the HTTP requests that can be open at once
Callers == {"request1", "request2"}
\* a number the object does not carry: every comparison with undefined is false
Missing == -1
\* what the collaborators of the Predictive Engine hand to it: the order
\* history of a customer, the top score of the behaviour model, the arrival
\* probability, the churn risk, the special requests, the satisfaction
\* prediction, the demand history in days, the forecast of the demand model,
\* the anomaly score and the revenue of the revenue model, scores in percent
Items == {"pasta", "risotto"}
Histories ==
  {[i \in 1..n |-> IF i % 2 = 1 THEN "pasta" ELSE "risotto"] : n \in 0..MaxHistory}
ModelConfidences == {50, 90}
ArrivalProbabilities == {70, 80}
ChurnRisks == {60, 70}
SpecialRequests ==
  { <<>>,
    <<[type |-> "birthday", action |-> "Prepare birthday dessert", confidence |-> 95]>>,
    <<[type |-> "anniversary", action |-> "Reserve special table", confidence |-> 85],
      [type |-> "dietary", action |-> "Offer vegan menu", confidence |-> 80]>> }
SatisfactionConfidences == {0, 60}
DemandHistories == UNION {[1..n -> {40, 60}] : n \in 0..MaxHistoryDays}
AnomalyScores == {50, 70, 71, 95}
\* interaction.items, the outcome of analyzer.getSentiment(interaction.feedback)
\* and interaction.notes, by the keywords extractDietaryInfo finds in them
ItemLists == {<<>>, <<"pasta">>, <<"pasta", "pasta">>, <<"risotto", "pasta">>}
FeedbackOutcomes == {"positive", "neutral", "throws"}
NoNotes == [allergic |-> "", allergy |-> "", vegetarian |-> FALSE, vegan |-> FALSE]
Notes ==
  {NoNotes,
   [allergic |-> "nuts", allergy |-> "nuts", vegetarian |-> FALSE, vegan |-> TRUE],
   [allergic |-> "", allergy |-> "shellfish", vegetarian |-> TRUE, vegan |-> TRUE]}
\* the probabilities Map of predictArrivalTime: one entry per time slot, in
\* the order generateTimeSlots lists the slots
SlotProbabilities == {30, 70, 80}
TimeSlots ==
  UNION {{[i \in 1..n |-> [slot |-> i, probability |-> f[i]]] :
            f \in [1..n -> SlotProbabilities]} : n \in 0..MaxSlots}
Revenues == {-1000, 0, 1000}

\* ------------------------------------------------------- program constants
\* if (similarity.length > 3)
SimilarityThreshold == 3
\* if (effectiveness > 0.7), in percent
EffectivenessThreshold == 70
\* if (outcome.satisfaction > 0.8), in percent
BestPracticeThreshold == 80
\* sentiments.slice(-10)
SentimentWindow == 10
\* if (teamEffectiveness > 0.85), in percent
TeamThreshold == 85
\* if (history.length < 3)
MinHistory == 3
\* if (anomalyScore[0] > 0.7), in percent
AnomalyThreshold == 70
\* the thresholds of generateProactiveActions, in percent
Thresholds == [arrival |-> 70, order |-> 80, churn |-> 60, special |-> 80]
\* const weights = [0.3, 0.2, 0.2, 0.15, 0.15], and weights[i] || 0.1, in percent
Weights == <<30, 20, 20, 15, 15>>
DefaultWeight == 10
\* for (let i = 0; i < 7; i++)
ForecastDays == 7
\* up to 3 alternative slots
MaxAlternatives == 3

VARIABLES
  agents,           \* this.agents: the keys of the Map agentId -> ws
  open,             \* the agentIds whose ws.readyState is WebSocket.OPEN
  patternStore,     \* success reports seen so far, per action (Pattern Store)
  successPatterns,  \* this.brain.successPatterns: Map action -> record
  sopCreated,       \* number of createSOP calls, per action
  received,         \* number of SUCCESS_PATTERN reports received, per action
  crisisResponses,  \* this.brain.crisisResponses: Map crisisType -> crisis
  crisisPlaybook,   \* the playbook written by updateCrisisPlaybook
  bestResolved,     \* highest effectiveness of a submitted resolved report, per type
  sent,             \* the messages handed to ws.send by the last step
  lastReport,       \* the report handled by the last step
  crashed,          \* the coordinator process has died of an uncaught exception
  customerPatterns, \* this.brain.customerPatterns: Map situation -> patterns
  bestPractices,    \* the patterns extractBestPractice has tagged, per situation
  situationReporters, \* the agents that reported each situation, for notifyRelevantAgents
  customersSeen,    \* the customers referenced by a handled CUSTOMER_INTERACTION report
  interactionsReceived, \* number of CUSTOMER_INTERACTION reports handled, per situation
  customerProfiles, \* sharedMemory.customerProfiles: Map customerId -> profile
  profileUpdates,   \* number of updateCustomerProfile calls, per customer
  emotionalMatrix,  \* sharedMemory.emotionalMatrix: Map key -> cell
  emotionalSubmissions, \* the samples of the EMOTIONAL_READ reports, per (detected, response)
  learningLog,      \* the COLLECTIVE_LEARNING messages written to each socket, in order
  submitted,        \* number of reports each agent has written to its socket
  inbox,            \* the reports of each socket not yet handed to its 'message' listener
  registry,         \* this.agents as a Map: its entries agentId -> ws in insertion order
  socketsOpened,    \* number of connections made so far, per agentId
  openSockets,      \* the sockets, as <<agentId, number>>, whose readyState is OPEN
  delivered,        \* the ws.send calls of the last broadcastLearning, in order
  relationships,    \* sharedMemory.relationships: the Graph, nodes and edges
  teamFormations,   \* the team updateTeamFormations keeps for each task
  effectiveTeams,   \* number of effective COLLABORATIVE_SOLUTION reports, per team named
  pending,          \* what each open HTTP request is waiting for
  lastCall          \* the Predictive Engine call that returned or threw last

vars == <<agents, open, patternStore, successPatterns, sopCreated, received,
          crisisResponses, crisisPlaybook, bestResolved, sent, lastReport,
          crashed, customerPatterns, bestPractices, situationReporters,
          customersSeen, interactionsReceived, customerProfiles, profileUpdates,
          emotionalMatrix, emotionalSubmissions, learningLog, submitted, inbox,
          registry, socketsOpened, openSockets, delivered,
          relationships, teamFormations, effectiveTeams, pending, lastCall>>

meshVars == <<agents, open>>
successVars == <<patternStore, successPatterns, sopCreated, received>>
crisisVars == <<crisisResponses, crisisPlaybook, bestResolved>>
customerVars == <<customerPatterns, bestPractices, situationReporters,
                  customersSeen, interactionsReceived>>
profileVars == <<customerProfiles, profileUpdates>>
emotionalVars == <<emotionalMatrix, emotionalSubmissions>>
graphVars == <<relationships, teamFormations, effectiveTeams>>
memoryVars == <<customerVars, profileVars, emotionalVars, graphVars>>
registryVars == <<registry, socketsOpened, openSockets, delivered>>
orderVars == <<learningLog, submitted, inbox, registryVars>>
engineVars == <<pending, lastCall>>

\* ----------------------------------------------------------------- helpers
\* Map.prototype.set
MapSet(m, k, v) == [x \in (DOMAIN m) \cup {k} |-> IF x = k THEN v ELSE m[x]]

\* Map.prototype.has
MapHas(m, k) == k \in DOMAIN m

EmptyMap == [x \in {} |-> 0]

\* new Graph()
EmptyGraph == [nodes |-> {}, edges |-> EmptyMap]

\* a caller that waits for no call, and the state before the first call
Idle == "idle"
NoCall == [name |-> "none", input |-> <<>>, outcome |-> "none", result |-> <<>>]

NoReport == [kind |-> "NONE", source |-> "", subject |-> "",
             resolved |-> FALSE, severity |-> 0, duration |-> 0]

Message(to, type, source, subject) ==
  [to |-> to, type |-> type, source |-> source, subject |-> subject]

\* -------------------------------------------------------------------- Init
Init ==
  /\ agents = {}
  /\ open = {}
  /\ patternStore = [a \in Actions |-> <<>>]
  /\ successPatterns = EmptyMap
  /\ sopCreated = [a \in Actions |-> 0]
  /\ received = [a \in Actions |-> 0]
  /\ crisisResponses = EmptyMap
  /\ crisisPlaybook = EmptyMap
  /\ bestResolved = [t \in CrisisTypes |-> 0]
  /\ sent = {}
  /\ lastReport = NoReport
  /\ crashed = FALSE
  /\ customerPatterns = EmptyMap
  /\ bestPractices = [k \in SituationInputs |-> <<>>]
  /\ situationReporters = [k \in SituationInputs |-> {}]
  /\ customersSeen = {}
  /\ interactionsReceived = [k \in SituationInputs |-> 0]
  /\ customerProfiles = EmptyMap
  /\ profileUpdates = [c \in Customers |-> 0]
  /\ emotionalMatrix = EmptyMap
  /\ emotionalSubmissions = [p \in Detected \X Responses |-> <<>>]
  /\ learningLog = [a \in AgentIds |-> <<>>]
  /\ registry = <<>>
  /\ socketsOpened = [a \in AgentIds |-> 0]
  /\ openSockets = {}
  /\ delivered = <<>>
  /\ submitted = [a \in AgentIds |-> 0]
  /\ inbox = [a \in AgentIds |-> <<>>]
  /\ relationships = EmptyGraph
  /\ teamFormations = EmptyMap
  /\ effectiveTeams = [t \in Teams |-> 0]
  /\ pending = [c \in Callers |-> Idle]
  /\ lastCall = NoCall

\* ------------------------------------------------------------ mesh network
\* syncAgentKnowledge(agentId): the snapshot sent to the new agent
syncAgentKnowledge(agentId) ==
  {Message(agentId, "KNOWLEDGE_SYNC", "", "snapshot")}

\* meshNetwork.on('connection'): this.agents.set(agentId, ws), then the sync
ConnectUnregistered(agentId) ==
  /\ ~crashed
  /\ agentId \notin open
  /\ open' = open \cup {agentId}
  /\ sent' = syncAgentKnowledge(agentId)
  /\ lastReport' = NoReport
  /\ UNCHANGED <<agents, successVars, crisisVars, memoryVars, orderVars, engineVars, crashed>>

Connect(agentId) ==
  /\ ~crashed
  /\ agentId \notin open
  /\ agents' = agents \cup {agentId}
  /\ open' = open \cup {agentId}
  /\ sent' = syncAgentKnowledge(agentId)
  /\ lastReport' = NoReport
  /\ UNCHANGED <<successVars, crisisVars, memoryVars, orderVars, engineVars, crashed>>

\* the socket of agentId closes: readyState leaves OPEN; no handler is
\* registered for 'close', so this.agents keeps the entry
Disconnect(agentId) ==
  /\ ~crashed
  /\ agentId \in open
  /\ open' = open \ {agentId}
  /\ sent' = {}
  /\ lastReport' = NoReport
  /\ UNCHANGED <<agents, successVars, crisisVars, memoryVars, orderVars, engineVars, crashed>>

\* the agents broadcastLearning sends to
BroadcastRecipientsWithSource(sourceAgent) ==
  {agentId \in agents : agentId \in open}

\* the forEach of broadcastLearning given up at the first socket that is not open
BroadcastRecipientsStopAtClosed(sourceAgent) ==
  IF agents \subseteq open
  THEN {agentId \in agents : agentId # sourceAgent}
  ELSE {}

BroadcastRecipients(sourceAgent) ==
  {agentId \in agents : agentId # sourceAgent /\ agentId \in open}

\* broadcastLearning(sourceAgent, learning)
broadcastLearning(sourceAgent) ==
  {Message(agentId, "COLLECTIVE_LEARNING", sourceAgent, "learning") :
     agentId \in BroadcastRecipients(sourceAgent)}

\* --------------------------------------------------- success pattern mining
\* the observation kept in the Pattern Store for one report
Variation(pattern) == pattern.agent

\* findSimilarPatterns(pattern): the observations sharing pattern.action, the
\* new one included; conditions are not compared
findSimilarPatterns(pattern) ==
  Append(patternStore[pattern.action], Variation(pattern))

\* if (similarity.length > 3)
IsProvenOffByOne(similarity) == Len(similarity) >= SimilarityThreshold

IsProven(similarity) == Len(similarity) > SimilarityThreshold

\* similarity.length / this.agents.size
ConfidenceSwapped(similarCount, activeAgentCount) ==
  [num |-> activeAgentCount, den |-> similarCount]

Confidence(similarCount, activeAgentCount) ==
  [num |-> similarCount, den |-> activeAgentCount]

\* createSOP(pattern): one standard operating procedure per call
createSOP(pattern) ==
  sopCreated' = [sopCreated EXCEPT ![pattern.action] = @ + 1]

\* recordSuccessPattern(agentId, context, outcome)
recordSuccessPattern(agentId, context) ==
  LET pattern == [agent |-> agentId,
                  action |-> context.action,
                  conditions |-> context.conditions,
                  replicable |-> TRUE]
      similarity == findSimilarPatterns(pattern)
  IN /\ patternStore' = [patternStore EXCEPT ![pattern.action] = similarity]
     /\ received' = [received EXCEPT ![pattern.action] = @ + 1]
     /\ IF IsProven(similarity)
        THEN /\ successPatterns' =
                  MapSet(successPatterns, pattern.action,
                         [agent |-> pattern.agent,
                          action |-> pattern.action,
                          conditions |-> pattern.conditions,
                          replicable |-> pattern.replicable,
                          confidence |-> Confidence(Len(similarity), Cardinality(agents)),
                          variations |-> similarity])
             /\ createSOP(pattern)
        ELSE UNCHANGED <<successPatterns, sopCreated>>

RECURSIVE SumOver(_, _)
SumOver(f, S) ==
  IF S = {} THEN 0
  ELSE LET x == CHOOSE y \in S : TRUE IN f[x] + SumOver(f, S \ {x})

ReportsReceived == SumOver(received, Actions)

\* processAgentCommunication(agentId, data), case 'SUCCESS_PATTERN'
ProcessSuccessPattern(agentId, action, conditions) ==
  /\ ~crashed
  /\ ReportsReceived < MaxReports
  /\ recordSuccessPattern(agentId, [action |-> action, conditions |-> conditions])
  /\ sent' = broadcastLearning(agentId)
  /\ lastReport' = [NoReport EXCEPT !.kind = "SUCCESS_PATTERN",
                                    !.source = agentId,
                                    !.subject = action]
  /\ UNCHANGED <<meshVars, crisisVars, memoryVars, orderVars, engineVars, crashed>>

NextSuccess ==
  \/ \E agentId \in AgentIds : Connect(agentId)
  \/ \E agentId \in SourceIds, action \in Actions, conditions \in Conditions :
       ProcessSuccessPattern(agentId, action, conditions)

SpecSuccess == Init /\ [][NextSuccess]_vars

\* success reports while agents connect and disconnect
NextActive ==
  \/ \E agentId \in AgentIds : Connect(agentId)
  \/ \E agentId \in AgentIds : Disconnect(agentId)
  \/ \E agentId \in {"sophia", "marcus"} :
       ProcessSuccessPattern(agentId, "offer_dessert", "happy")

SpecActive == Init /\ [][NextActive]_vars

\* -------------------------------------------------- crisis management
Max(a, b) == IF a >= b THEN a ELSE b

Min(a, b) == IF a <= b THEN a ELSE b

\* calculateEffectiveness(crisis), in percent: 0 for an unresolved crisis,
\* otherwise rising with the severity handled and falling with the duration
calculateEffectiveness(crisis) ==
  IF ~crisis.resolution
  THEN 0
  ELSE Max(0, Min(100, 50 + 5 * crisis.severity - 2 * crisis.timeToResolve))

\* if (effectiveness > 0.7)
QualifiesAlways(effectiveness) == effectiveness >= 0

Qualifies(effectiveness) == effectiveness > EffectivenessThreshold

\* updateCrisisPlaybook(crisisType, crisis): the playbook entry is written
\* when there is none or when the crisis is strictly more effective
updateCrisisPlaybook(crisisType, crisis) ==
  crisisPlaybook' =
    IF \/ ~MapHas(crisisPlaybook, crisisType)
       \/ calculateEffectiveness(crisis) >
            calculateEffectiveness(crisisPlaybook[crisisType])
    THEN MapSet(crisisPlaybook, crisisType, crisis)
    ELSE crisisPlaybook

\* distributeTraining('crisis', crisis): the training example sent to all agents
distributeTraining(sourceAgent, crisis) ==
  {Message(agentId, "CRISIS_TRAINING", sourceAgent, crisis.type) :
     agentId \in {a \in agents : a \in open}}

Crisis(context, outcome) ==
  [type |-> context.crisisType,
   severity |-> context.severity,
   resolution |-> outcome.resolved,
   timeToResolve |-> outcome.duration]

\* learnCrisisManagement without its last statement
learnCrisisManagementNoTraining(agentId, context, outcome, learning) ==
  LET crisis == Crisis(context, outcome)
      effectiveness == calculateEffectiveness(crisis)
  IN /\ IF Qualifies(effectiveness)
        THEN /\ crisisResponses' = MapSet(crisisResponses, context.crisisType, crisis)
             /\ updateCrisisPlaybook(context.crisisType, crisis)
        ELSE UNCHANGED <<crisisResponses, crisisPlaybook>>
     /\ sent' = learning

\* learnCrisisManagement with the training moved into the if branch
learnCrisisManagementTrainPromoted(agentId, context, outcome, learning) ==
  LET crisis == Crisis(context, outcome)
      effectiveness == calculateEffectiveness(crisis)
  IN /\ IF Qualifies(effectiveness)
        THEN /\ crisisResponses' = MapSet(crisisResponses, context.crisisType, crisis)
             /\ updateCrisisPlaybook(context.crisisType, crisis)
             /\ sent' = distributeTraining(agentId, crisis) \cup learning
        ELSE /\ UNCHANGED <<crisisResponses, crisisPlaybook>>
             /\ sent' = learning

\* learnCrisisManagement(agentId, context, outcome); learning is what
\* processAgentCommunication sends after it
learnCrisisManagement(agentId, context, outcome, learning) ==
  LET crisis == Crisis(context, outcome)
      effectiveness == calculateEffectiveness(crisis)
  IN /\ IF Qualifies(effectiveness)
        THEN /\ crisisResponses' = MapSet(crisisResponses, context.crisisType, crisis)
             /\ updateCrisisPlaybook(context.crisisType, crisis)
        ELSE UNCHANGED <<crisisResponses, crisisPlaybook>>
     /\ sent' = distributeTraining(agentId, crisis) \cup learning

\* processAgentCommunication(agentId, data), case 'CRISIS_HANDLED'
ProcessCrisisHandled(agentId, crisisType, severity, resolved, duration) ==
  LET context == [crisisType |-> crisisType, severity |-> severity]
      outcome == [resolved |-> resolved, duration |-> duration]
  IN /\ ~crashed
     /\ learnCrisisManagement(agentId, context, outcome, broadcastLearning(agentId))
     /\ bestResolved' =
          IF resolved
          THEN [bestResolved EXCEPT ![crisisType] =
                  Max(@, calculateEffectiveness(Crisis(context, outcome)))]
          ELSE bestResolved
     /\ lastReport' = [kind |-> "CRISIS_HANDLED", source |-> agentId,
                       subject |-> crisisType, resolved |-> resolved,
                       severity |-> severity, duration |-> duration]
     /\ UNCHANGED <<meshVars, successVars, memoryVars, orderVars, engineVars, crashed>>

\* processAgentCommunication(agentId, data), type matched by no case
ProcessOther(agentId) ==
  /\ ~crashed
  /\ sent' = broadcastLearning(agentId)
  /\ lastReport' = [NoReport EXCEPT !.kind = "OTHER", !.source = agentId]
  /\ UNCHANGED <<meshVars, successVars, crisisVars, memoryVars, orderVars, engineVars, crashed>>

NextCrisis ==
  \/ \E agentId \in AgentIds : Connect(agentId)
  \/ \E agentId \in AgentIds : Disconnect(agentId)
  \/ \E agentId \in SourceIds, crisisType \in CrisisTypes, severity \in Severities,
        resolved \in BOOLEAN, duration \in Durations :
       ProcessCrisisHandled(agentId, crisisType, severity, resolved, duration)
  \/ \E agentId \in SourceIds : ProcessOther(agentId)

SpecCrisis == Init /\ [][NextCrisis]_vars

\* ------------------------------------------------ malformed reports
\* ws.on('message'): JSON.parse(data) or the handler throws on a report that
\* does not parse or lacks its context, outcome or emotion object; nothing
\* catches the exception of the listener and the process ends, which closes
\* every socket
MalformedOverMesh(agentId) ==
  /\ ~crashed
  /\ agentId \in open
  /\ crashed' = TRUE
  /\ open' = {}
  /\ sent' = {}
  /\ lastReport' = [NoReport EXCEPT !.kind = "MALFORMED", !.source = agentId]
  /\ UNCHANGED <<agents, successVars, crisisVars, memoryVars, orderVars, engineVars>>

\* POST /api/intelligence/learn: the same exception is caught by the route,
\* which answers 500; the handler threw before its first store update and
\* before broadcastLearning
MalformedOverHttpBroadcast(agentId) ==
  /\ ~crashed
  /\ sent' = broadcastLearning(agentId)
  /\ lastReport' = [NoReport EXCEPT !.kind = "MALFORMED", !.source = agentId]
  /\ UNCHANGED <<meshVars, successVars, crisisVars, memoryVars, orderVars, engineVars, crashed>>

MalformedOverHttp(agentId) ==
  /\ ~crashed
  /\ sent' = {}
  /\ lastReport' = [NoReport EXCEPT !.kind = "MALFORMED", !.source = agentId]
  /\ UNCHANGED <<meshVars, successVars, crisisVars, memoryVars, orderVars, engineVars, crashed>>

NextMalformed ==
  \/ \E agentId \in AgentIds : Connect(agentId)
  \/ \E agentId \in AgentIds : Disconnect(agentId)
  \/ \E agentId \in SourceIds : ProcessOther(agentId)
  \/ \E agentId \in AgentIds : MalformedOverMesh(agentId)
  \/ \E agentId \in SourceIds : MalformedOverHttp(agentId)

SpecMalformed == Init /\ [][NextMalformed]_vars

\* ------------------------------------------- customer interaction learning
\* lines 93-97 without the has() test: the list is set anew for every report
StorePatternReset(store, pattern) ==
  MapSet(store, pattern.situation, <<pattern>>)

\* if (!has(situation)) set(situation, []); get(situation).push(pattern)
StorePattern(store, pattern) ==
  LET withKey == IF ~MapHas(store, pattern.situation)
                 THEN MapSet(store, pattern.situation, <<>>)
                 ELSE store
  IN MapSet(withKey, pattern.situation, Append(withKey[pattern.situation], pattern))

\* if (outcome.satisfaction > 0.8)
IsBestPracticeInclusive(satisfaction) == satisfaction >= BestPracticeThreshold

IsBestPractice(satisfaction) == satisfaction > BestPracticeThreshold

\* extractBestPractice(pattern): the pattern is kept, tagged, alongside the store
extractBestPractice(pattern) ==
  bestPractices' = [bestPractices EXCEPT ![pattern.situation] = Append(@, pattern)]

\* notifyRelevantAgents(situation, pattern): the connected agents whose own
\* earlier reports carry the same situation key are notified
notifyRelevantAgents(situation, pattern) ==
  {Message(agentId, "PATTERN_NOTIFICATION", Undefined, situation) :
     agentId \in {a \in agents : a \in open /\ a \in situationReporters[situation]}}

\* learnFromCustomerInteraction(agentId, context, outcome); learning is what
\* processAgentCommunication sends after it
learnFromCustomerInteraction(agentId, context, outcome, learning) ==
  LET pattern == [situation |-> context.situation,
                  customerMood |-> context.mood,
                  approach |-> context.approach,
                  result |-> outcome.satisfaction]
  IN /\ customerPatterns' = StorePattern(customerPatterns, pattern)
     /\ IF IsBestPractice(outcome.satisfaction)
        THEN extractBestPractice(pattern)
        ELSE UNCHANGED bestPractices
     /\ sent' = notifyRelevantAgents(context.situation, pattern) \cup learning

InteractionsReceived == SumOver(interactionsReceived, SituationInputs)

\* processAgentCommunication(agentId, data), case 'CUSTOMER_INTERACTION';
\* situation is Undefined when the context lacks the field
ProcessCustomerInteraction(agentId, customerId, situation, satisfaction) ==
  LET context == [situation |-> situation, mood |-> "upset",
                  approach |-> "apologize", customerId |-> customerId]
      outcome == [satisfaction |-> satisfaction]
  IN /\ ~crashed
     /\ InteractionsReceived < MaxInteractions
     /\ learnFromCustomerInteraction(agentId, context, outcome, broadcastLearning(agentId))
     /\ situationReporters' = [situationReporters EXCEPT ![situation] = @ \cup {agentId}]
     /\ customersSeen' = customersSeen \cup {customerId}
     /\ interactionsReceived' = [interactionsReceived EXCEPT ![situation] = @ + 1]
     /\ lastReport' = [NoReport EXCEPT !.kind = "CUSTOMER_INTERACTION",
                                       !.source = agentId,
                                       !.subject = situation]
     /\ UNCHANGED <<meshVars, successVars, crisisVars, profileVars,
                    emotionalVars, graphVars, orderVars, engineVars, crashed>>

NextCustomer ==
  \/ \E agentId \in AgentIds : Connect(agentId)
  \/ \E agentId \in SourceIds, customerId \in Customers,
        situation \in SituationInputs, satisfaction \in Satisfactions :
       ProcessCustomerInteraction(agentId, customerId, situation, satisfaction)

SpecCustomer == Init /\ [][NextCustomer]_vars

\* ----------------------------------------------- shared memory: profiles
\* interactions.map(i => i.sentiment || 0)
SentimentsOf(interactions) ==
  [i \in 1..Len(interactions) |-> interactions[i].sentiment]

\* sentiments.slice(-n)
LastN(seq, n) ==
  IF Len(seq) <= n THEN seq ELSE SubSeq(seq, Len(seq) - n + 1, Len(seq))

\* recent.reduce: the sum of sentiment * (index + 1), the weights' common
\* denominator recent.length left out
RECURSIVE IndexWeightedSum(_, _)
IndexWeightedSum(recent, n) ==
  IF n = 0 THEN 0 ELSE recent[n] * n + IndexWeightedSum(recent, n - 1)

\* SharedMemory.calculateSentiment(interactions): weightedSum / recent.length
\* with weight (index + 1) / recent.length, as the exact quotient num/den
calculateSentiment(interactions) ==
  LET recent == LastN(SentimentsOf(interactions), SentimentWindow)
  IN [num |-> IndexWeightedSum(recent, Len(recent)),
      den |-> Len(recent) * Len(recent)]

NewProfile(customerId) ==
  [id |-> customerId, preferences |-> <<>>, interactions |-> <<>>,
   sentiment |-> [num |-> 0, den |-> 1], lifetime_value |-> 0,
   special_dates |-> <<>>, allergies |-> <<>>, favorite_items |-> <<>>]

\* SharedMemory.updateCustomerProfile(customerId, interaction), for an
\* interaction without items and notes, which extractPreferences leaves alone
updateCustomerProfile(profiles, customerId, interaction) ==
  LET withKey == IF ~MapHas(profiles, customerId)
                 THEN MapSet(profiles, customerId, NewProfile(customerId))
                 ELSE profiles
      interactions == Append(withKey[customerId].interactions, interaction)
  IN MapSet(withKey, customerId,
            [withKey[customerId] EXCEPT
               !.interactions = interactions,
               !.sentiment = calculateSentiment(interactions)])

\* items.forEach: if (sentiment > 0 && !favorite_items.includes(item)) push(item)
RECURSIVE AddFavorites(_, _)
AddFavorites(favorites, items) ==
  IF items = <<>> THEN favorites
  ELSE AddFavorites(IF \E i \in 1..Len(favorites) : favorites[i] = Head(items)
                    THEN favorites
                    ELSE Append(favorites, Head(items)),
                    Tail(items))

\* [...new Set(list)]: every element once, at the place of its first occurrence
Spread(list) == list

UniqueOf(list) ==
  LET first == {i \in 1..Len(list) : \A j \in 1..(i - 1) : list[j] # list[i]}
  IN [k \in 1..Cardinality(first) |->
        list[CHOOSE i \in first : Cardinality({j \in first : j <= i}) = k]]

\* extractDietaryInfo(text): the item after each allergy keyword found and the
\* preference keywords found, in the order of the keyword lists
extractDietaryInfo(notes) ==
  [allergies |-> (IF notes.allergic # "" THEN <<notes.allergic>> ELSE <<>>)
                   \o (IF notes.allergy # "" THEN <<notes.allergy>> ELSE <<>>),
   preferences |-> (IF notes.vegetarian THEN <<"vegetarian">> ELSE <<>>)
                     \o (IF notes.vegan THEN <<"vegan">> ELSE <<>>)]

\* extractPreferences(profile, interaction) to its end
extractPreferences(profile, interaction) ==
  LET dietary == extractDietaryInfo(interaction.notes)
  IN [profile EXCEPT
        !.favorite_items = IF interaction.feedback = "positive"
                           THEN AddFavorites(@, interaction.items)
                           ELSE @,
        !.allergies = IF interaction.notes # NoNotes
                      THEN UniqueOf(@ \o dietary.allergies)
                      ELSE @,
        !.preferences = IF interaction.notes # NoNotes
                        THEN UniqueOf(@ \o dietary.preferences)
                        ELSE @]

\* analyzer.getSentiment throws inside items.forEach, before any push and
\* before the dietary part
ExtractPreferencesThrows(interaction) ==
  interaction.items # <<>> /\ interaction.feedback = "throws"

ProfileUpdates == SumOver(profileUpdates, Customers)

\* SharedMemory.updateCustomerProfile(customerId, interaction) for an
\* interaction with items, feedback and notes
UpdateCustomerPreferences(customerId, items, feedback, notes) ==
  LET interaction == [sentiment |-> 0, items |-> items, feedback |-> feedback,
                      notes |-> notes]
      updated == updateCustomerProfile(customerProfiles, customerId, interaction)
  IN /\ ~crashed
     /\ ProfileUpdates < MaxPreferenceUpdates
     /\ customerProfiles' =
          IF ExtractPreferencesThrows(interaction)
          THEN updated
          ELSE MapSet(updated, customerId,
                      extractPreferences(updated[customerId], interaction))
     /\ profileUpdates' = [profileUpdates EXCEPT ![customerId] = @ + 1]
     /\ sent' = {}
     /\ lastReport' = NoReport
     /\ UNCHANGED <<meshVars, successVars, crisisVars, customerVars,
                    emotionalVars, graphVars, orderVars, engineVars, crashed>>

NextPreferences ==
  \E customerId \in Customers, items \in ItemLists,
     feedback \in FeedbackOutcomes, notes \in Notes :
    UpdateCustomerPreferences(customerId, items, feedback, notes)

SpecPreferences == Init /\ [][NextPreferences]_vars

UpdateCustomerProfile(customerId, sentiment) ==
  /\ ~crashed
  /\ ProfileUpdates < MaxProfileUpdates
  /\ customerProfiles' =
       updateCustomerProfile(customerProfiles, customerId, [sentiment |-> sentiment])
  /\ profileUpdates' = [profileUpdates EXCEPT ![customerId] = @ + 1]
  /\ sent' = {}
  /\ lastReport' = NoReport
  /\ UNCHANGED <<meshVars, successVars, crisisVars, customerVars,
                 emotionalVars, graphVars, orderVars, engineVars, crashed>>

NextProfile ==
  \E customerId \in Customers, sentiment \in Sentiments :
    UpdateCustomerProfile(customerId, sentiment)

SpecProfile == Init /\ [][NextProfile]_vars

\* two reports in flight at once: the handlers are synchronous and each runs
\* to completion on the event loop, so the reports are handled in either order
NextConcurrent ==
  \/ \E agentId \in SourceIds, customerId \in Customers,
        situation \in SituationInputs, satisfaction \in Satisfactions :
       ProcessCustomerInteraction(agentId, customerId, situation, satisfaction)
  \/ \E customerId \in Customers, sentiment \in Sentiments :
       /\ ProfileUpdates < MaxInteractions
       /\ UpdateCustomerProfile(customerId, sentiment)

SpecConcurrent == Init /\ [][NextConcurrent]_vars

\* processAgentCommunication(agentId, data) for reports of two kinds and for
\* reports whose handler throws
NextDispatch ==
  \/ \E agentId \in AgentIds : Connect(agentId)
  \/ \E agentId \in SourceIds, situation \in Situations, satisfaction \in Satisfactions :
       ProcessCustomerInteraction(agentId, "c1", situation, satisfaction)
  \/ \E agentId \in SourceIds, crisisType \in CrisisTypes, resolved \in BOOLEAN :
       ProcessCrisisHandled(agentId, crisisType, 9, resolved, 5)
  \/ \E agentId \in AgentIds : MalformedOverMesh(agentId)
  \/ \E agentId \in SourceIds : MalformedOverHttp(agentId)

SpecDispatch == Init /\ [][NextDispatch]_vars

\* --------------------------------------------- emotional response matrix
\* `${data.detected}_${data.response}`
EmotionKey(detected, response) == detected \o "_" \o response

RECURSIVE SumSeq(_)
SumSeq(seq) == IF seq = <<>> THEN 0 ELSE Head(seq) + SumSeq(Tail(seq))

\* effectiveness.reduce((a, b) => a + b, 0) / effectiveness.length, as the
\* exact quotient num/den
Average(effectiveness) ==
  [num |-> SumSeq(effectiveness), den |-> Len(effectiveness)]

\* SharedMemory.updateEmotionalMatrix(data)
updateEmotionalMatrix(matrix, data) ==
  LET key == EmotionKey(data.detected, data.response)
      withKey == IF ~MapHas(matrix, key)
                 THEN MapSet(matrix, key, [effectiveness |-> <<>>, count |-> 0])
                 ELSE matrix
      effectiveness == Append(withKey[key].effectiveness, data.effectiveness)
  IN MapSet(withKey, key,
            [effectiveness |-> effectiveness,
             count |-> withKey[key].count + 1,
             averageEffectiveness |-> Average(effectiveness)])

\* broadcastEmotionalLearning(emotionalData): the update goes to all agents
\* whose socket is open; the function is not handed the reporting agent
broadcastEmotionalLearning(emotionalData) ==
  {Message(agentId, "EMOTIONAL_LEARNING", Undefined,
           EmotionKey(emotionalData.detected, emotionalData.response)) :
     agentId \in {a \in agents : a \in open}}

\* updateEmotionalIntelligence(agentId, emotion, outcome), then the
\* broadcastLearning of processAgentCommunication
updateEmotionalIntelligence(agentId, emotion, outcome, learning) ==
  LET emotionalData == [detected |-> emotion.detected,
                        response |-> emotion.response,
                        effectiveness |-> outcome.effectiveness]
  IN /\ emotionalMatrix' = updateEmotionalMatrix(emotionalMatrix, emotionalData)
     /\ sent' = broadcastEmotionalLearning(emotionalData) \cup learning

EmotionalReads ==
  SumOver([p \in Detected \X Responses |-> Len(emotionalSubmissions[p])],
          Detected \X Responses)

\* processAgentCommunication(agentId, data), data.type = 'EMOTIONAL_READ'
ProcessEmotionalRead(agentId, detected, response, effectiveness) ==
  /\ ~crashed
  /\ EmotionalReads < MaxEmotionalReads
  /\ updateEmotionalIntelligence(agentId,
                                 [detected |-> detected, response |-> response],
                                 [effectiveness |-> effectiveness],
                                 broadcastLearning(agentId))
  /\ emotionalSubmissions' =
       [emotionalSubmissions EXCEPT ![<<detected, response>>] = Append(@, effectiveness)]
  /\ lastReport' = [NoReport EXCEPT !.kind = "EMOTIONAL_READ",
                                    !.source = agentId,
                                    !.subject = EmotionKey(detected, response)]
  /\ UNCHANGED <<meshVars, successVars, crisisVars, customerVars, profileVars,
                 graphVars, orderVars, engineVars, crashed>>

NextEmotional ==
  \/ \E agentId \in AgentIds : Connect(agentId)
  \/ \E agentId \in SourceIds, detected \in Detected, response \in Responses,
        effectiveness \in EffectivenessSamples :
       ProcessEmotionalRead(agentId, detected, response, effectiveness)

SpecEmotional == Init /\ [][NextEmotional]_vars

\* -------------------------------------------------- delivery and ordering
\* ws.send at the front of the socket's outgoing data
wsSendFirst(buffer, message) == <<message>> \o buffer

\* ws.send(JSON.stringify(message)): the socket writes in the order of the calls
wsSend(buffer, message) == Append(buffer, message)

Submitted == SumOver(submitted, AgentIds)

\* an agent writes its next report to its socket
Submit(agentId) ==
  /\ ~crashed
  /\ agentId \in open
  /\ Submitted < MaxSubmissions
  /\ submitted' = [submitted EXCEPT ![agentId] = @ + 1]
  /\ inbox' = [inbox EXCEPT ![agentId] = Append(@, submitted[agentId] + 1)]
  /\ sent' = {}
  /\ lastReport' = NoReport
  /\ UNCHANGED <<meshVars, successVars, crisisVars, memoryVars, learningLog,
                 registryVars, engineVars, crashed>>

\* ws.on('message'): the socket hands its oldest report to the listener, which
\* runs processAgentCommunication to its end, broadcastLearning included
HandleMessage(agentId) ==
  /\ ~crashed
  /\ inbox[agentId] # <<>>
  /\ inbox' = [inbox EXCEPT ![agentId] = Tail(@)]
  /\ sent' = broadcastLearning(agentId)
  /\ learningLog' =
       [a \in AgentIds |->
          IF a \in BroadcastRecipients(agentId)
          THEN wsSend(learningLog[a], [source |-> agentId, seq |-> Head(inbox[agentId])])
          ELSE learningLog[a]]
  /\ lastReport' = [NoReport EXCEPT !.kind = "OTHER", !.source = agentId]
  /\ UNCHANGED <<meshVars, successVars, crisisVars, memoryVars, submitted,
                 registryVars, engineVars, crashed>>

NextOrder ==
  \/ \E agentId \in AgentIds : Connect(agentId)
  \/ \E agentId \in AgentIds : Disconnect(agentId)
  \/ \E agentId \in AgentIds : Submit(agentId)
  \/ \E agentId \in AgentIds : HandleMessage(agentId)

SpecOrder == Init /\ [][NextOrder]_vars

\* ------------------------------------------------ connections per agentId
\* Map.prototype.set(agentId, ws): the value of a key already in the Map is
\* replaced where the key stands, a new key is added at the end
RegistryAppend(entries, agentId, socket) ==
  Append(entries, [id |-> agentId, socket |-> socket])

RegistrySet(entries, agentId, socket) ==
  IF \E i \in 1..Len(entries) : entries[i].id = agentId
  THEN [i \in 1..Len(entries) |->
          IF entries[i].id = agentId
          THEN [id |-> agentId, socket |-> socket]
          ELSE entries[i]]
  ELSE Append(entries, [id |-> agentId, socket |-> socket])

\* the agentIds whose registered socket is open
RegisteredOpen(entries, sockets) ==
  {entries[i].id : i \in {j \in 1..Len(entries) :
                            <<entries[j].id, entries[j].socket>> \in sockets}}

\* this.agents.forEach((ws, agentId) => ...): one ws.send per entry whose key
\* is not the source and whose socket is open
Sends(entries, sourceAgent) ==
  SelectSeq(entries, LAMBDA entry :
    entry.id # sourceAgent /\ <<entry.id, entry.socket>> \in openSockets)

ConnectionsMade == SumOver(socketsOpened, AgentIds)

\* meshNetwork.on('connection') for a socket that names agentId, whether or
\* not a socket of that agentId is registered
ConnectSocket(agentId) ==
  LET socket == socketsOpened[agentId] + 1
  IN /\ ~crashed
     /\ ConnectionsMade < MaxConnections
     /\ socketsOpened' = [socketsOpened EXCEPT ![agentId] = socket]
     /\ registry' = RegistrySet(registry, agentId, socket)
     /\ openSockets' = openSockets \cup {<<agentId, socket>>}
     /\ agents' = agents \cup {agentId}
     /\ open' = open \cup {agentId}
     /\ sent' = syncAgentKnowledge(agentId)
     /\ delivered' = <<>>
     /\ lastReport' = NoReport
     /\ UNCHANGED <<successVars, crisisVars, memoryVars, learningLog, submitted,
                    inbox, engineVars, crashed>>

\* a socket closes: its readyState leaves OPEN and this.agents is not touched
CloseSocket(agentId, socket) ==
  /\ ~crashed
  /\ <<agentId, socket>> \in openSockets
  /\ openSockets' = openSockets \ {<<agentId, socket>>}
  /\ open' = RegisteredOpen(registry, openSockets')
  /\ sent' = {}
  /\ delivered' = <<>>
  /\ lastReport' = NoReport
  /\ UNCHANGED <<agents, registry, socketsOpened, successVars, crisisVars,
                 memoryVars, learningLog, submitted, inbox, engineVars, crashed>>

\* processAgentCommunication(agentId, data) for a type matched by no case:
\* broadcastLearning(agentId, learning) over the entries of this.agents
BroadcastOverRegistry(agentId) ==
  /\ ~crashed
  /\ delivered' = Sends(registry, agentId)
  /\ sent' = broadcastLearning(agentId)
  /\ lastReport' = [NoReport EXCEPT !.kind = "OTHER", !.source = agentId]
  /\ UNCHANGED <<meshVars, registry, socketsOpened, openSockets, successVars,
                 crisisVars, memoryVars, learningLog, submitted, inbox,
                 engineVars, crashed>>

NextReconnect ==
  \/ \E agentId \in AgentIds : ConnectSocket(agentId)
  \/ \E agentId \in AgentIds, socket \in 1..MaxConnections :
       CloseSocket(agentId, socket)
  \/ \E agentId \in SourceIds : BroadcastOverRegistry(agentId)

SpecReconnect == Init /\ [][NextReconnect]_vars

\* ------------------------------------------------- relationship graph
\* Graph.addNode(id, data)
addNode(graph, id) ==
  [nodes |-> graph.nodes \cup {id},
   edges |-> IF ~MapHas(graph.edges, id)
             THEN MapSet(graph.edges, id, <<>>)
             ELSE graph.edges]

\* Graph.addEdge(from, to, weight = 1): this.edges.get(from).add({ to, weight });
\* the Set holds objects, and every call adds a new one
addEdge(graph, from, to, weight) ==
  [graph EXCEPT !.edges =
     MapSet(graph.edges, from, Append(graph.edges[from], [to |-> to, weight |-> weight]))]

\* the pairwise combinations of the agents named, in the order of data.agents
RECURSIVE PairsFrom(_, _, _)
PairsFrom(team, i, j) ==
  IF i >= Len(team) THEN <<>>
  ELSE IF j > Len(team) THEN PairsFrom(team, i + 1, i + 2)
  ELSE <<<<team[i], team[j]>>>> \o PairsFrom(team, i, j + 1)

Pairs(team) == PairsFrom(team, 1, 2)

\* the sum of the weights of the edges from one agent to another
EdgeWeight(graph, from, to) ==
  IF ~MapHas(graph.edges, from)
  THEN 0
  ELSE SumSeq([i \in 1..Len(graph.edges[from]) |->
                 IF graph.edges[from][i].to = to
                 THEN graph.edges[from][i].weight ELSE 0])

RECURSIVE CumulativeWeight(_, _)
CumulativeWeight(graph, pairs) ==
  IF pairs = <<>> THEN 0
  ELSE EdgeWeight(graph, Head(pairs)[1], Head(pairs)[2])
         + CumulativeWeight(graph, Tail(pairs))

\* one weight increment for every pair: both agents become nodes and the
\* pair gets an edge of the default weight
RECURSIVE IncrementPairs(_, _)
IncrementPairs(graph, pairs) ==
  IF pairs = <<>> THEN graph
  ELSE IncrementPairs(
         addEdge(addNode(addNode(graph, Head(pairs)[1]), Head(pairs)[2]),
                 Head(pairs)[1], Head(pairs)[2], 1),
         Tail(pairs))

\* analyzeTeamDynamics(collaboration), in percent: the success the outcome reports
analyzeTeamDynamics(collaboration) == collaboration.outcome.success

\* updateTeamFormations(agents, task): the increments, then the formation of
\* the task becomes the team when no team of higher cumulative weight is kept
updateTeamFormations(team, task) ==
  LET graph == IncrementPairs(relationships, Pairs(team))
  IN /\ relationships' = graph
     /\ teamFormations' =
          IF \/ ~MapHas(teamFormations, task)
             \/ CumulativeWeight(graph, Pairs(team))
                  >= CumulativeWeight(graph, Pairs(teamFormations[task]))
          THEN MapSet(teamFormations, task, team)
          ELSE teamFormations

\* if (teamEffectiveness > 0.85)
IsEffectiveTeam(teamEffectiveness) == teamEffectiveness > TeamThreshold

\* enhanceCollaborationPatterns(data)
enhanceCollaborationPatterns(data) ==
  LET collaboration == [agents |-> data.agents, task |-> data.task,
                        outcome |-> data.outcome]
      teamEffectiveness == analyzeTeamDynamics(collaboration)
  IN IF IsEffectiveTeam(teamEffectiveness)
     THEN updateTeamFormations(collaboration.agents, collaboration.task)
     ELSE UNCHANGED <<relationships, teamFormations>>

EffectiveReports == SumOver(effectiveTeams, Teams)

\* processAgentCommunication(agentId, data), case 'COLLABORATIVE_SOLUTION'
ProcessCollaborativeSolution(agentId, team, task, success) ==
  /\ ~crashed
  /\ EffectiveReports < MaxCollaborations
  /\ enhanceCollaborationPatterns([agents |-> team, task |-> task,
                                   outcome |-> [success |-> success]])
  /\ effectiveTeams' =
       IF IsEffectiveTeam(success)
       THEN [effectiveTeams EXCEPT ![team] = @ + 1]
       ELSE effectiveTeams
  /\ sent' = broadcastLearning(agentId)
  /\ lastReport' = [NoReport EXCEPT !.kind = "COLLABORATIVE_SOLUTION",
                                    !.source = agentId,
                                    !.subject = task]
  /\ UNCHANGED <<meshVars, successVars, crisisVars, customerVars, profileVars,
                 emotionalVars, orderVars, engineVars, crashed>>

NextCollaboration ==
  \/ \E agentId \in AgentIds : Connect(agentId)
  \/ \E agentId \in SourceIds, team \in Teams, task \in Tasks, success \in Successes :
       ProcessCollaborativeSolution(agentId, team, task, success)

SpecCollaboration == Init /\ [][NextCollaboration]_vars

\* ------------------------------------------------------ predictive engine
\* a sub-prediction the bundle may lack is <<>> or <<prediction>>
Some(prediction) == <<prediction>>
None == <<>>

\* extractOrderPatterns and decodePrediction: the candidate ranked first is
\* the item ordered most often, the first such item of the history on a tie
Count(history, item) ==
  Cardinality({i \in 1..Len(history) : history[i] = item})

TopCandidate(history) ==
  LET best == CHOOSE i \in 1..Len(history) :
                /\ \A j \in 1..Len(history) :
                     Count(history, history[j]) <= Count(history, history[i])
                /\ \A j \in 1..(i - 1) :
                     Count(history, history[j]) < Count(history, history[i])
  IN history[best]

\* if (history.length < 3)
HasHistoryOffByOne(history) == Len(history) > MinHistory

HasHistory(history) == ~(Len(history) < MinHistory)

\* predictNextOrder(customerId), for the history getCustomerHistory returns
\* and the top score of the customerBehavior model
predictNextOrder(history, modelConfidence) ==
  IF ~HasHistory(history)
  THEN [items |-> <<>>, confidence |-> 0]
  ELSE [items |-> <<TopCandidate(history)>>,
        confidence |-> modelConfidence,
        reasoning |-> "order history"]

\* predictions.arrivalTime?.probability, predictions.nextOrder?.confidence
Probability(prediction) ==
  IF prediction = None THEN Missing ELSE prediction[1].probability

ConfidenceOf(prediction) ==
  IF prediction = None THEN Missing ELSE prediction[1].confidence

\* value > threshold, false for undefined
ExceedsOrEquals(value, threshold) == value # Missing /\ value >= threshold

Below(value, threshold) == value # Missing /\ value < threshold

Exceeds(value, threshold) == value # Missing /\ value > threshold

\* predictions.specialRequest?.forEach: one SPECIAL_PREP per request above
\* the threshold
SpecialActions(specialRequest, threshold) ==
  LET requests == IF specialRequest = None THEN <<>> ELSE specialRequest[1]
      above == SelectSeq(requests, LAMBDA request : Exceeds(request.confidence, threshold))
  IN [i \in 1..Len(above) |->
        [type |-> "SPECIAL_PREP", priority |-> "high",
         agent |-> IF above[i].type = "birthday" THEN "chen" ELSE "marcus",
         action |-> above[i].action]]

\* the body of generateProactiveActions, its four literals as t
ProactiveActionsAt(predictions, t) ==
  (IF Exceeds(Probability(predictions.arrivalTime), t.arrival)
   THEN <<[type |-> "PREPARE_TABLE",
           time |-> predictions.arrivalTime[1].estimatedTime,
           priority |-> "high", agent |-> "marcus"]>>
   ELSE <<>>)
  \o (IF Exceeds(ConfidenceOf(predictions.nextOrder), t.order)
      THEN <<[type |-> "PREP_INGREDIENTS",
              items |-> predictions.nextOrder[1].items,
              priority |-> "medium", agent |-> "sophia"]>>
      ELSE <<>>)
  \o (IF Exceeds(predictions.churnRisk, t.churn)
      THEN <<[type |-> "RETENTION", priority |-> "high", agent |-> "marcus"]>>
      ELSE <<>>)
  \o SpecialActions(predictions.specialRequest, t.special)

\* generateProactiveActions(predictions)
generateProactiveActions(predictions) == ProactiveActionsAt(predictions, Thresholds)

\* weights[i] || 0.1
WeightAt(i) == IF i \in DOMAIN Weights THEN Weights[i] ELSE DefaultWeight

\* Object.values(predictions).filter(p => p?.confidence).map(p => p.confidence):
\* of the five values only nextOrder and satisfaction are objects with a
\* confidence, and a confidence of 0 is filtered out
Confidences(predictions) ==
  SelectSeq(<<ConfidenceOf(predictions.nextOrder), Missing, Missing,
              ConfidenceOf(predictions.satisfaction), Missing>>,
            LAMBDA confidence : confidence # Missing /\ confidence # 0)

\* calculateConfidence(predictions), as the exact quotient num/den in percent
calculateConfidence(predictions) ==
  LET confidences == Confidences(predictions)
  IN IF Len(confidences) = 0
     THEN [num |-> 0, den |-> 100]
     ELSE [num |-> SumSeq([i \in 1..Len(confidences) |-> confidences[i] * WeightAt(i)]),
           den |-> 100]

\* predictCustomerNeeds(customerId, context), for what the five
\* sub-predictions find
predictCustomerNeeds(history, modelConfidence, arrivalTime, specialRequest, satisfaction, churnRisk) ==
  LET predictions == [nextOrder |-> Some(predictNextOrder(history, modelConfidence)),
                      arrivalTime |-> Some(arrivalTime),
                      specialRequest |-> Some(specialRequest),
                      satisfaction |-> Some(satisfaction),
                      churnRisk |-> churnRisk]
  IN [predictions |-> predictions,
      actions |-> generateProactiveActions(predictions),
      confidence |-> calculateConfidence(predictions)]

\* calculateForecastConfidence(historicalData, i), in percent: none without a
\* day of history, otherwise falling with the distance of the day
calculateForecastConfidence(historicalData, i) ==
  IF Len(historicalData) < 1 THEN 0 ELSE Max(0, 90 - 10 * i)

\* tf.tensor2d(historicalData) throws for an array without rows
Tensor2dThrows(historicalData) == historicalData = <<>>

\* forecastDemand(timeframe), for the history getHistoricalDemand returns;
\* the model forecasts the mean of the history for every day
forecastDemand(historicalData) ==
  [daily |-> [i \in 1..ForecastDays |->
                [day |-> i - 1,
                 expectedCovers |-> SumSeq(historicalData) \div Len(historicalData),
                 peakHour |-> 19,
                 confidence |-> calculateForecastConfidence(historicalData, i - 1)]],
   items |-> [item \in Items |-> "forecast"]]

\* optimizeStaffing(constraints): one schedule per forecast day, the cost summed
optimizeStaffing(historicalData) ==
  LET demand == forecastDemand(historicalData)
      schedule == [i \in 1..ForecastDays |->
                     [day |-> demand.daily[i].day,
                      cost |-> demand.daily[i].expectedCovers]]
  IN [schedule |-> schedule,
      cost |-> SumSeq([i \in 1..ForecastDays |-> schedule[i].cost]),
      serviceLevel |-> 100,
      recommendations |-> <<>>]

\* predictRevenue(timeframe), for the revenue the model predicts
predictRevenue(revenue) ==
  [expected |-> revenue,
   bestCase |-> (revenue * 12) \div 10,
   worstCase |-> (revenue * 8) \div 10,
   confidence |-> 80,
   breakdown |-> "breakdown",
   opportunities |-> <<>>]

\* calculateSeverity(score): the severity tier
calculateSeverity(score) == IF score > 90 THEN "critical" ELSE "high"

\* if (anomalyScore[0] > 0.7)
IsAnomalyInclusive(score) == score >= AnomalyThreshold

IsAnomaly(score) == score > AnomalyThreshold

\* detectAnomalies(metrics), for the score the anomaly model gives the metrics
detectAnomalies(score) ==
  IF IsAnomaly(score)
  THEN [detected |-> TRUE,
        score |-> score,
        type |-> "operational",
        severity |-> calculateSeverity(score),
        recommendations |-> <<"review staffing">>]
  ELSE [detected |-> FALSE]

\* Array.prototype.sort with (a, b) => b[1] - a[1]: descending by probability,
\* entries of equal probability keep their order
RECURSIVE InsertByProbability(_, _)
InsertByProbability(sorted, entry) ==
  IF sorted = <<>> THEN <<entry>>
  ELSE IF Head(sorted).probability >= entry.probability
       THEN <<Head(sorted)>> \o InsertByProbability(Tail(sorted), entry)
       ELSE <<entry>> \o sorted

RECURSIVE SortByProbability(_)
SortByProbability(entries) ==
  IF entries = <<>> THEN <<>>
  ELSE InsertByProbability(SortByProbability(SubSeq(entries, 1, Len(entries) - 1)),
                           entries[Len(entries)])

\* getAlternativeTimes(probabilities): the next slots after the most likely
\* one, by falling probability, 3 at most
getAlternativeTimes(entries) ==
  LET sorted == SortByProbability(entries)
  IN SubSeq(sorted, 2, Min(Len(sorted), 1 + MaxAlternatives))

\* mostLikely is undefined when the Map has no entry, and mostLikely[0] throws
MostLikelyDefined(entries) == entries # <<>>

\* predictArrivalTime(customerId, context), for the probabilities computed
predictArrivalTime(entries) ==
  LET mostLikely == SortByProbability(entries)[1]
  IN [estimatedTime |-> mostLikely.slot,
      probability |-> mostLikely.probability,
      alternativeTimes |-> getAlternativeTimes(entries)]

EngineCalls == {"predictCustomerNeeds", "forecastDemand", "optimizeStaffing",
                "predictRevenue", "detectAnomalies"}

Returned(name, input, result) ==
  [name |-> name, input |-> input, outcome |-> "returned", result |-> result]

Threw(name, input) ==
  [name |-> name, input |-> input, outcome |-> "threw", result |-> <<>>]

\* a step of a request that handles no report and sends nothing over the mesh
EngineStepRecording ==
  /\ ~crashed
  /\ sent' = {}
  /\ lastReport' = NoReport
  /\ customerPatterns' = MapSet(customerPatterns, "prediction", <<>>)
  /\ UNCHANGED <<meshVars, successVars, crisisVars, bestPractices,
                 situationReporters, customersSeen, interactionsReceived,
                 profileVars, emotionalVars, graphVars, orderVars, crashed>>

EngineStep ==
  /\ ~crashed
  /\ sent' = {}
  /\ lastReport' = NoReport
  /\ UNCHANGED <<meshVars, successVars, crisisVars, memoryVars, orderVars, crashed>>

\* a route of server.js calls the engine and awaits the result
BeginCall(caller, name) ==
  /\ pending[caller] = Idle
  /\ pending' = [pending EXCEPT ![caller] = name]
  /\ UNCHANGED lastCall
  /\ EngineStep

\* predictCustomerNeeds returns to POST /api/intelligence/predict, which has
\* the prediction to share next
FinishPredictCustomerNeeds(caller, history, modelConfidence, arrivalTime, specialRequest, satisfaction, churnRisk) ==
  /\ pending[caller] = "predictCustomerNeeds"
  /\ lastCall' = Returned("predictCustomerNeeds", history,
                          predictCustomerNeeds(history, modelConfidence, arrivalTime,
                                               specialRequest, satisfaction, churnRisk))
  /\ pending' = [pending EXCEPT ![caller] = "share"]
  /\ EngineStep

\* POST /api/intelligence/predict after the await:
\* processAgentCommunication('api', { type: 'CUSTOMER_INTERACTION', context,
\* outcome: { predictions } }), an outcome without satisfaction
SharePrediction(caller, situation) ==
  LET context == [situation |-> situation, mood |-> Undefined, approach |-> Undefined]
      outcome == [satisfaction |-> Missing]
  IN /\ ~crashed
     /\ pending[caller] = "share"
     /\ InteractionsReceived < MaxInteractions
     /\ learnFromCustomerInteraction(ApiAgent, context, outcome, broadcastLearning(ApiAgent))
     /\ situationReporters' = [situationReporters EXCEPT ![situation] = @ \cup {ApiAgent}]
     /\ interactionsReceived' = [interactionsReceived EXCEPT ![situation] = @ + 1]
     /\ lastReport' = [NoReport EXCEPT !.kind = "CUSTOMER_INTERACTION",
                                       !.source = ApiAgent,
                                       !.subject = situation]
     /\ pending' = [pending EXCEPT ![caller] = Idle]
     /\ UNCHANGED <<meshVars, successVars, crisisVars, customersSeen, profileVars,
                    emotionalVars, graphVars, orderVars, lastCall, crashed>>

\* forecastDemand returns or throws to POST /api/intelligence/forecast
FinishForecastDemand(caller, historicalData) ==
  /\ pending[caller] = "forecastDemand"
  /\ lastCall' = IF Tensor2dThrows(historicalData)
                 THEN Threw("forecastDemand", historicalData)
                 ELSE Returned("forecastDemand", historicalData,
                               forecastDemand(historicalData))
  /\ pending' = [pending EXCEPT ![caller] = Idle]
  /\ EngineStep

\* optimizeStaffing returns or throws to POST /api/intelligence/optimize-staff
FinishOptimizeStaffing(caller, historicalData) ==
  /\ pending[caller] = "optimizeStaffing"
  /\ lastCall' = IF Tensor2dThrows(historicalData)
                 THEN Threw("optimizeStaffing", historicalData)
                 ELSE Returned("optimizeStaffing", historicalData,
                               optimizeStaffing(historicalData))
  /\ pending' = [pending EXCEPT ![caller] = Idle]
  /\ EngineStep

\* predictRevenue returns to its caller
FinishPredictRevenue(caller, revenue) ==
  /\ pending[caller] = "predictRevenue"
  /\ lastCall' = Returned("predictRevenue", revenue, predictRevenue(revenue))
  /\ pending' = [pending EXCEPT ![caller] = Idle]
  /\ EngineStep

\* detectAnomalies returns to POST /api/intelligence/anomaly
FinishDetectAnomalies(caller, score) ==
  /\ pending[caller] = "detectAnomalies"
  /\ lastCall' = Returned("detectAnomalies", score, detectAnomalies(score))
  /\ pending' = [pending EXCEPT ![caller] = Idle]
  /\ EngineStep

ArrivalTimes ==
  {[estimatedTime |-> "19:00", probability |-> p] : p \in ArrivalProbabilities}

NextEngine ==
  \/ \E caller \in Callers, name \in EngineCalls : BeginCall(caller, name)
  \/ \E caller \in Callers, history \in Histories,
        modelConfidence \in ModelConfidences, arrivalTime \in ArrivalTimes,
        specialRequest \in {<<>>},
        satisfactionConfidence \in SatisfactionConfidences,
        churnRisk \in ChurnRisks :
       FinishPredictCustomerNeeds(caller, history, modelConfidence, arrivalTime,
                                  specialRequest,
                                  [value |-> 90, confidence |-> satisfactionConfidence],
                                  churnRisk)
  \/ \E caller \in Callers, situation \in SituationInputs :
       SharePrediction(caller, situation)
  \/ \E caller \in Callers, historicalData \in DemandHistories :
       FinishForecastDemand(caller, historicalData)
  \/ \E caller \in Callers, historicalData \in DemandHistories :
       FinishOptimizeStaffing(caller, historicalData)
  \/ \E caller \in Callers, revenue \in Revenues :
       FinishPredictRevenue(caller, revenue)
  \/ \E caller \in Callers, score \in AnomalyScores :
       FinishDetectAnomalies(caller, score)

SpecEngine == Init /\ [][NextEngine]_vars

\* the prediction bundles a caller can hand to generateProactiveActions and
\* calculateConfidence, sub-predictions missing or present
Optional(S) == {None} \cup {Some(x) : x \in S}

Bundles ==
  [nextOrder : Optional({predictNextOrder(history, modelConfidence) :
                           history \in Histories, modelConfidence \in ModelConfidences}),
   arrivalTime : Optional(ArrivalTimes),
   specialRequest : Optional(SpecialRequests),
   satisfaction : Optional({[value |-> 90, confidence |-> c] :
                              c \in SatisfactionConfidences}),
   churnRisk : {Missing} \cup ChurnRisks]

\* generateProactiveActions(predictions) called with a bundle
GenerateProactiveActions(predictions) ==
  /\ lastCall' = Returned("generateProactiveActions", predictions,
                          generateProactiveActions(predictions))
  /\ UNCHANGED pending
  /\ EngineStep

\* calculateConfidence(predictions) called with a bundle
CalculateConfidence(predictions) ==
  /\ lastCall' = Returned("calculateConfidence", predictions,
                          calculateConfidence(predictions))
  /\ UNCHANGED pending
  /\ EngineStep

\* predictArrivalTime(customerId, context) returns or throws to its caller
PredictArrivalTime(entries) ==
  /\ lastCall' = IF MostLikelyDefined(entries)
                 THEN Returned("predictArrivalTime", entries, predictArrivalTime(entries))
                 ELSE Threw("predictArrivalTime", entries)
  /\ UNCHANGED pending
  /\ EngineStep

NextArrival == \E entries \in TimeSlots : PredictArrivalTime(entries)

SpecArrival == Init /\ [][NextArrival]_vars

NextBundle ==
  \/ \E predictions \in Bundles : GenerateProactiveActions(predictions)
  \/ \E predictions \in Bundles : CalculateConfidence(predictions)

SpecBundle == Init /\ [][NextBundle]_vars

Next ==
  \/ NextSuccess \/ NextCrisis \/ NextMalformed \/ NextCustomer
  \/ NextProfile \/ NextEmotional \/ NextOrder \/ NextCollaboration
  \/ NextEngine \/ NextBundle \/ NextArrival
  \/ NextDispatch \/ NextActive \/ NextReconnect \/ NextPreferences

Spec == Init /\ [][Next]_vars

\* ================================================================== claims
UnitInterval(confidence) ==
  confidence.den > 0 /\ confidence.num >= 0 /\ confidence.num <= confidence.den

Range(seq) == {seq[i] : i \in 1..Len(seq)}

LearningTo(agentId) ==
  \E m \in sent : m.to = agentId /\ m.type = "COLLECTIVE_LEARNING"

TrainingTo(agentId, crisisType) ==
  \E m \in sent :
    m.to = agentId /\ m.type = "CRISIS_TRAINING" /\ m.subject = crisisType

\* C1: for every action, a promoted SuccessPattern record for the action is
\* in the store if and only if at least 4 SuccessPattern reports with that
\* action have been received, whatever their conditions.
C1_PromotedIffFourReports ==
  \A action \in Actions :
    MapHas(successPatterns, action) <=> received[action] >= 4

C1_Witness ==
  \E action \in Actions, other \in Actions :
    /\ received[action] = 4
    /\ MapHas(successPatterns, action)
    /\ successPatterns[action].conditions = "neutral"
    /\ received[other] = 1
    /\ ~MapHas(successPatterns, other)

\* C2: the confidence of every promoted SuccessPattern record lies in [0,1],
\* also when there are more similar reports than connected agents and when no
\* agent is connected.
C2_ConfidenceInUnitInterval ==
  \A action \in DOMAIN successPatterns :
    UnitInterval(successPatterns[action].confidence)

\* C3: four SuccessPattern submissions of one action trigger exactly one
\* promotion event (one createSOP) for that action, and an action submitted
\* fewer than four times, such as the different action of a fifth submission,
\* triggers none.
C3_ExactlyOnePromotionEvent ==
  \A action \in Actions :
    /\ received[action] = 4 => sopCreated[action] = 1
    /\ received[action] < 4 => sopCreated[action] = 0

C3_Witness ==
  \E action \in Actions, other \in Actions :
    /\ received[action] = 4
    /\ Range(patternStore[action]) = SourceIds
    /\ received[other] = 1
    /\ lastReport.kind = "SUCCESS_PATTERN" /\ lastReport.subject = other
    /\ sopCreated[action] = 1
    /\ sopCreated[other] = 0

\* C4 (as stated): once a SuccessPattern record is promoted it stays in the
\* store, and a later report changes nothing of it but its confidence and
\* its variations.
C4_OnlyConfidenceAndVariationsChange ==
  [][\A action \in DOMAIN successPatterns :
       /\ MapHas(successPatterns', action)
       /\ successPatterns'[action].action = successPatterns[action].action
       /\ successPatterns'[action].agent = successPatterns[action].agent
       /\ successPatterns'[action].conditions = successPatterns[action].conditions]_vars

\* C4 (amended): once a SuccessPattern record is promoted it stays in the
\* store under its action; a later report with that action replaces it by a
\* record built from that report, whose variations are the old ones followed
\* by the report and whose similar count is one higher; any other step leaves
\* the record as it is.
C4_NeverDeletedRebuiltByLaterReports ==
  [][\A action \in DOMAIN successPatterns :
       /\ MapHas(successPatterns', action)
       /\ successPatterns'[action].action = action
       /\ IF received'[action] = received[action]
          THEN successPatterns'[action] = successPatterns[action]
          ELSE /\ successPatterns'[action].agent = lastReport'.source
               /\ successPatterns'[action].variations =
                    Append(successPatterns[action].variations, lastReport'.source)
               /\ successPatterns'[action].confidence.num =
                    successPatterns[action].confidence.num + 1
               /\ successPatterns'[action].confidence.den = Cardinality(agents')]_vars

C4_Witness ==
  \E action \in DOMAIN successPatterns :
    /\ received[action] = 5
    /\ Len(successPatterns[action].variations) = 5
    /\ successPatterns[action].agent # successPatterns[action].variations[4]

\* C5: for every crisisType, the stored entry is at least as effective as
\* every submitted CrisisHandled report of that type with resolved = true.
C5_StoredEntryIsMostEffective ==
  \A crisisType \in DOMAIN crisisResponses :
    calculateEffectiveness(crisisResponses[crisisType]) >= bestResolved[crisisType]

\* C6: a CrisisHandled report replaces the stored entry of its crisisType only
\* if its effectiveness is above 0.7 and strictly above the stored entry's, so
\* the stored effectiveness of a type never decreases.
C6_ReplacedOnlyByStrictlyMoreEffective ==
  [][\A crisisType \in DOMAIN crisisResponses :
       /\ MapHas(crisisResponses', crisisType)
       /\ crisisResponses'[crisisType] # crisisResponses[crisisType] =>
            /\ calculateEffectiveness(crisisResponses'[crisisType]) > EffectivenessThreshold
            /\ calculateEffectiveness(crisisResponses'[crisisType]) >
                 calculateEffectiveness(crisisResponses[crisisType])]_vars

\* C7: a CrisisHandled report with resolved = false neither becomes nor
\* replaces a stored crisis entry, whatever its severity and duration.
C7_UnresolvedNeverStored ==
  [][(lastReport'.kind = "CRISIS_HANDLED" /\ ~lastReport'.resolved) =>
       /\ crisisResponses' = crisisResponses
       /\ crisisPlaybook' = crisisPlaybook]_vars

C7_Witness ==
  /\ lastReport.kind = "CRISIS_HANDLED"
  /\ ~lastReport.resolved
  /\ lastReport.severity = 9
  /\ lastReport.duration = 5
  /\ ~MapHas(crisisResponses, lastReport.subject)
  /\ ~MapHas(crisisPlaybook, lastReport.subject)

\* C8: every CrisisHandled report is sent as a CRISIS_TRAINING example to
\* all connected agents, whether or not it was promoted into the store, in
\* addition to the COLLECTIVE_LEARNING broadcast to the other agents.
C8_EveryCrisisReportIsTraining ==
  lastReport.kind = "CRISIS_HANDLED" =>
    \A agentId \in agents \cap open :
      /\ TrainingTo(agentId, lastReport.subject)
      /\ agentId # lastReport.source => LearningTo(agentId)

C8_Witness ==
  /\ lastReport.kind = "CRISIS_HANDLED"
  /\ lastReport.resolved
  /\ lastReport.severity = 7
  /\ lastReport.duration = 30
  /\ ~MapHas(crisisResponses, lastReport.subject)
  /\ Cardinality(agents \cap open) >= 2
  /\ \A agentId \in agents \cap open : TrainingTo(agentId, lastReport.subject)

\* C9: with two agents connected, once the report of agent 1 with
\* resolved:true, severity 0.9, duration 5 has been handled, and so before any
\* further report of agent 1 is, agent 2 has been sent a CRISIS_TRAINING
\* message naming the crisis type.
C9_SecondAgentTrainedAtOnce ==
  \A agent1 \in AgentIds, agent2 \in AgentIds :
    ( /\ agent1 # agent2
      /\ agents = {agent1, agent2}
      /\ open = {agent1, agent2}
      /\ lastReport.kind = "CRISIS_HANDLED"
      /\ lastReport.source = agent1
      /\ lastReport.resolved
      /\ lastReport.severity = 9
      /\ lastReport.duration = 5 )
    => Message(agent2, "CRISIS_TRAINING", agent1, lastReport.subject) \in sent

C9_Witness ==
  /\ agents = {"sophia", "marcus"}
  /\ open = {"sophia", "marcus"}
  /\ lastReport = [kind |-> "CRISIS_HANDLED", source |-> "sophia",
                   subject |-> "kitchen_fire", resolved |-> TRUE,
                   severity |-> 9, duration |-> 5]
  /\ TrainingTo("marcus", "kitchen_fire")

\* C10: for every handled report from source agent s, the COLLECTIVE_LEARNING
\* message is sent to every other agent whose connection is open and is not
\* sent to s.
C10_LearningToAllButSource ==
  lastReport.kind # "NONE" =>
    /\ \A agentId \in AgentIds :
         Message(agentId, "COLLECTIVE_LEARNING", lastReport.source, "learning") \in sent
           <=> (agentId \in agents /\ agentId \in open /\ agentId # lastReport.source)
    /\ ~LearningTo(lastReport.source)

C10_Witness ==
  /\ lastReport.kind \in {"CRISIS_HANDLED", "OTHER"}
  /\ lastReport.source \in open
  /\ Cardinality(open \ {lastReport.source}) = 1
  /\ Cardinality(agents \ open) = 1
  /\ \A agentId \in open \ {lastReport.source} : LearningTo(agentId)
  /\ ~LearningTo(lastReport.source)

\* C11: once an agent's connection is lost the agent is no longer a member of
\* the set of active agents (and is sent no broadcast until it reconnects).
C11_LostAgentLeavesActiveSet ==
  \A agentId \in AgentIds : agentId \notin open => agentId \notin agents

\* C12: a malformed report, unparseable or without the context, outcome or
\* emotion object its kind requires, never crashes the coordinator.
C12_MalformedNeverCrashes ==
  lastReport.kind = "MALFORMED" => ~crashed

\* C13: a CustomerInteraction report whose context lacks the situation is
\* dropped: the Pattern Store gets no entry from it and no learning derived
\* from it is sent to other agents.
C13_ReportMissingFieldDropped ==
  /\ ~MapHas(customerPatterns, Undefined)
  /\ (lastReport.kind = "CUSTOMER_INTERACTION" /\ lastReport.subject = Undefined)
       => \A agentId \in AgentIds : ~LearningTo(agentId)

\* C16: every CustomerInteraction report appends exactly one PatternRecord to
\* the list keyed by its situation, after the records already there; the
\* records already there and the lists of the other keys are unchanged; the
\* new record becomes a best-practice candidate if and only if its
\* satisfaction is strictly above 0.8.
C16_AppendsOneRecordBestPracticeIffAbove ==
  [][lastReport'.kind = "CUSTOMER_INTERACTION" =>
       LET key == lastReport'.subject
           before == IF MapHas(customerPatterns, key)
                     THEN customerPatterns[key] ELSE <<>>
           after == customerPatterns'[key]
       IN /\ DOMAIN customerPatterns' = (DOMAIN customerPatterns) \cup {key}
          /\ Len(after) = Len(before) + 1
          /\ SubSeq(after, 1, Len(before)) = before
          /\ after[Len(after)].situation = key
          /\ \A other \in (DOMAIN customerPatterns) \ {key} :
               customerPatterns'[other] = customerPatterns[other]
          /\ \A other \in SituationInputs \ {key} :
               bestPractices'[other] = bestPractices[other]
          /\ bestPractices'[key] =
               IF after[Len(after)].result > 80
               THEN Append(bestPractices[key], after[Len(after)])
               ELSE bestPractices[key]]_vars

C16_Witness ==
  /\ lastReport.kind = "CUSTOMER_INTERACTION"
  /\ MapHas(customerPatterns, "complaint")
  /\ Len(customerPatterns["complaint"]) = 2
  /\ customerPatterns["complaint"][1].result = 80
  /\ customerPatterns["complaint"][2].result = 90
  /\ bestPractices["complaint"] = <<customerPatterns["complaint"][2]>>

\* C17: after a CustomerInteraction report referencing a customer has been
\* processed, a CustomerProfile for that customer exists in Shared Memory.
C17_ProfileExistsForEveryCustomerSeen ==
  \A customerId \in customersSeen : MapHas(customerProfiles, customerId)

\* C14: for every (detected, response) pair that has been submitted, the
\* count of its EmotionalResponseCell equals the number of EmotionalRead
\* submissions received for the pair and its averageEffectiveness equals the
\* arithmetic mean of the samples received for the pair.
C14_CountAndMeanPerKey ==
  \A pair \in Detected \X Responses :
    LET samples == emotionalSubmissions[pair]
        key == EmotionKey(pair[1], pair[2])
    IN Len(samples) > 0 =>
         /\ MapHas(emotionalMatrix, key)
         /\ emotionalMatrix[key].count = Len(samples)
         /\ emotionalMatrix[key].averageEffectiveness.num * Len(samples)
              = SumSeq(samples) * emotionalMatrix[key].averageEffectiveness.den

\* C15: after each update the sentiment of a CustomerProfile equals the
\* recency-weighted mean of the sentiments of its last 10 interactions, the
\* weights rising with recency and the sum normalised by the sum of the weights.
C15_SentimentIsNormalisedWeightedMean ==
  \A customerId \in DOMAIN customerProfiles :
    LET profile == customerProfiles[customerId]
        recent == LastN(SentimentsOf(profile.interactions), 10)
        n == Len(recent)
        sumOfWeights == (n * (n + 1)) \div 2
    IN profile.sentiment.num * sumOfWeights
         = IndexWeightedSum(recent, n) * profile.sentiment.den

\* C18: each recipient is sent the broadcast of a given report at most once,
\* and two reports submitted over the same source connection reach every
\* recipient of both in the order of their submission.
C18_AtMostOnceOrderedPerSource ==
  \A agentId \in AgentIds :
    LET log == learningLog[agentId]
    IN \A i, j \in 1..Len(log) :
         i < j =>
           /\ log[i] # log[j]
           /\ log[i].source = log[j].source => log[i].seq < log[j].seq

C18_Witness ==
  /\ learningLog["marcus"] = << [source |-> "sophia", seq |-> 1],
                                [source |-> "isabella", seq |-> 1],
                                [source |-> "sophia", seq |-> 2] >>
  /\ lastReport.kind = "OTHER"
  /\ lastReport.source = "sophia"

C20_ClosedAgentStallsNothing ==
  (lastReport.kind \in {"CRISIS_HANDLED", "OTHER"} /\ agents \ open # {}) =>
    /\ \A agentId \in (agents \cap open) \ {lastReport.source} :
         /\ LearningTo(agentId)
         /\ lastReport.kind = "CRISIS_HANDLED" => TrainingTo(agentId, lastReport.subject)
    /\ (lastReport.kind = "CRISIS_HANDLED" /\ lastReport.resolved
          /\ 50 + 5 * lastReport.severity - 2 * lastReport.duration > 70) =>
         /\ MapHas(crisisResponses, lastReport.subject)
         /\ crisisResponses[lastReport.subject].severity = lastReport.severity
         /\ crisisResponses[lastReport.subject].timeToResolve = lastReport.duration

C20_Witness ==
  /\ lastReport.kind = "CRISIS_HANDLED"
  /\ lastReport.resolved
  /\ MapHas(crisisResponses, lastReport.subject)
  /\ agents = AgentIds
  /\ Cardinality(open) = 2
  /\ lastReport.source \in open
  /\ \A agentId \in open \ {lastReport.source} :
       LearningTo(agentId) /\ TrainingTo(agentId, lastReport.subject)
  /\ \A agentId \in agents \ open : ~LearningTo(agentId)

C23_ShortHistoryZeroConfidence ==
  lastCall.name = "predictCustomerNeeds" =>
    /\ lastCall.outcome = "returned"
    /\ LET nextOrder == lastCall.result.predictions.nextOrder[1]
       IN IF Len(lastCall.input) < 3
          THEN nextOrder = [items |-> <<>>, confidence |-> 0]
          ELSE /\ Len(nextOrder.items) = 1
               /\ nextOrder.items[1] \in Range(lastCall.input)
               /\ nextOrder.confidence \in ModelConfidences
               /\ "reasoning" \in DOMAIN nextOrder

C23_Witness ==
  /\ lastCall.name = "predictCustomerNeeds"
  /\ Len(lastCall.input) = 2
  /\ lastCall.outcome = "returned"
  /\ lastCall.result.predictions.nextOrder[1].confidence = 0
  /\ lastCall.result.confidence.num = 0

\* C24: forecastDemand with less than one day of history, the empty history
\* included, returns predictions whose confidence is 0 and does not throw.
C24_NoHistoryZeroConfidence ==
  (lastCall.name = "forecastDemand" /\ Len(lastCall.input) < 1) =>
    /\ lastCall.outcome = "returned"
    /\ \A i \in 1..Len(lastCall.result.daily) :
         lastCall.result.daily[i].confidence = 0

\* C25: detectAnomalies returns detected:true with score, type, severity and
\* recommendations exactly when the score is above 0.7, and only
\* detected:false for a score of 0.7 or less.
C25_FlaggedIffScoreAbove ==
  lastCall.name = "detectAnomalies" =>
    IF lastCall.input > 70
    THEN /\ DOMAIN lastCall.result =
              {"detected", "score", "type", "severity", "recommendations"}
         /\ lastCall.result.detected
         /\ lastCall.result.score = lastCall.input
    ELSE lastCall.result = [detected |-> FALSE]

C25_Witness ==
  /\ lastCall.name = "detectAnomalies"
  /\ lastCall.input = 70
  /\ lastCall.result = [detected |-> FALSE]

\* C26: every action of generateProactiveActions refers to a prediction that
\* is in the bundle and is strictly above its threshold (arrival 0.7, next
\* order 0.8, churn risk 0.6, special request 0.8); a bundle whose
\* predictions are missing or not above the threshold gives no action.
C26_ActionsOnlyAboveThreshold ==
  lastCall.name = "generateProactiveActions" =>
    LET predictions == lastCall.input
        actions == lastCall.result
        arrival == predictions.arrivalTime # None
                     /\ predictions.arrivalTime[1].probability > 70
        order == predictions.nextOrder # None
                   /\ predictions.nextOrder[1].confidence > 80
        churn == predictions.churnRisk # Missing /\ predictions.churnRisk > 60
        special(action) ==
          /\ predictions.specialRequest # None
          /\ \E request \in Range(predictions.specialRequest[1]) :
               request.action = action /\ request.confidence > 80
    IN /\ \A i \in 1..Len(actions) :
            /\ actions[i].type = "PREPARE_TABLE" => arrival
            /\ actions[i].type = "PREP_INGREDIENTS" => order
            /\ actions[i].type = "RETENTION" => churn
            /\ actions[i].type = "SPECIAL_PREP" => special(actions[i].action)
       /\ (~arrival /\ ~order /\ ~churn
             /\ (predictions.specialRequest = None
                   \/ \A request \in Range(predictions.specialRequest[1]) :
                        ~(request.confidence > 80)))
            => actions = <<>>

C26_Witness ==
  /\ lastCall.name = "generateProactiveActions"
  /\ lastCall.input.nextOrder = None
  /\ lastCall.input.arrivalTime # None
  /\ lastCall.input.arrivalTime[1].probability = 70
  /\ lastCall.input.churnRisk = 60
  /\ lastCall.input.specialRequest # None
  /\ Len(lastCall.input.specialRequest[1]) = 2
  /\ Len(lastCall.result) = 1
  /\ lastCall.result[1].type = "SPECIAL_PREP"

\* the thresholds a configuration can choose
ThresholdChoices ==
  [arrival : {60, 70, 80}, order : {70, 80, 90},
   churn : {50, 60, 70}, special : {70, 80, 90}]

\* C27: for a fixed prediction bundle, lowering thresholds only adds
\* actions: every action produced with the higher thresholds is produced
\* with the lower ones.
C27_MonotoneInThresholds ==
  lastCall.name = "generateProactiveActions" =>
    /\ lastCall.result = ProactiveActionsAt(lastCall.input, Thresholds)
    /\ \A lower, higher \in ThresholdChoices :
         (/\ lower.arrival <= higher.arrival
          /\ lower.order <= higher.order
          /\ lower.churn <= higher.churn
          /\ lower.special <= higher.special)
           => Range(ProactiveActionsAt(lastCall.input, higher))
                \subseteq Range(ProactiveActionsAt(lastCall.input, lower))

C27_Witness ==
  /\ lastCall.name = "generateProactiveActions"
  /\ Len(lastCall.result) = 1
  /\ lastCall.result[1].type = "RETENTION"
  /\ Len(ProactiveActionsAt(lastCall.input, [Thresholds EXCEPT !.arrival = 60])) = 2
  /\ ProactiveActionsAt(lastCall.input, [Thresholds EXCEPT !.arrival = 60])[1].type
       = "PREPARE_TABLE"

\* C28: the composite confidence lies between the smallest and the largest
\* confidence of the sub-predictions that have one, and so equals c when all
\* of them have confidence c.
C28_CompositeBetweenMinAndMax ==
  lastCall.name = "calculateConfidence" =>
    LET predictions == lastCall.input
        available ==
          {ConfidenceOf(predictions.nextOrder), ConfidenceOf(predictions.satisfaction)}
            \ {Missing}
        composite == lastCall.result
    IN available # {} =>
         /\ \E c \in available : c * composite.den <= composite.num
         /\ \E c \in available : composite.num <= c * composite.den

C30_NewAgentSyncedAndReached ==
  [][\A agentId \in AgentIds :
       /\ (agentId \notin open /\ agentId \in open')
            => /\ agentId \in agents'
               /\ sent' = {Message(agentId, "KNOWLEDGE_SYNC", "", "snapshot")}
               /\ (ENABLED (\E other \in SourceIds \ {agentId} : ProcessOther(other)))'
       /\ (agentId \in agents /\ agentId \in open /\ lastReport'.kind # NoReport.kind
             /\ lastReport'.source # agentId)
            => Message(agentId, "COLLECTIVE_LEARNING", lastReport'.source, "learning")
                 \in sent']_vars

C30_Witness ==
  /\ lastReport.kind = "CRISIS_HANDLED"
  /\ lastReport.source = "sophia"
  /\ open = {"sophia", "marcus"}
  /\ Message("marcus", "COLLECTIVE_LEARNING", "sophia", "learning") \in sent
  /\ Message("sophia", "COLLECTIVE_LEARNING", "sophia", "learning") \notin sent

\* C31: predictArrivalTime returns the slot of the highest probability of
\* all slots with its probability and at most 3 alternative slots in order
\* of non-increasing probability; with no slot it returns a result of
\* probability 0 and does not throw.
C31_ModeSlotOrZeroConfidence ==
  lastCall.name = "predictArrivalTime" =>
    /\ lastCall.outcome = "returned"
    /\ LET entries == lastCall.input
           result == lastCall.result
           alternatives == result.alternativeTimes
       IN IF entries = <<>>
          THEN result.probability = 0
          ELSE /\ \E i \in 1..Len(entries) :
                    /\ entries[i].slot = result.estimatedTime
                    /\ entries[i].probability = result.probability
               /\ \A i \in 1..Len(entries) :
                    entries[i].probability <= result.probability
               /\ Len(alternatives) <= 3
               /\ \A i \in 1..Len(alternatives) :
                    /\ alternatives[i] \in Range(entries)
                    /\ alternatives[i].slot # result.estimatedTime
               /\ \A i, j \in 1..Len(alternatives) :
                    i < j => alternatives[i].probability >= alternatives[j].probability

\* C39: every revenue forecast has worstCase <= expected <= bestCase with
\* bestCase 1.2 times and worstCase 0.8 times the expected value, for zero
\* and negative expected values too.
C39_WorstExpectedBestOrdered ==
  lastCall.name = "predictRevenue" =>
    LET forecast == lastCall.result
    IN /\ forecast.expected = lastCall.input
       /\ 10 * forecast.bestCase = 12 * forecast.expected
       /\ 10 * forecast.worstCase = 8 * forecast.expected
       /\ forecast.worstCase <= forecast.expected
       /\ forecast.expected <= forecast.bestCase

\* C32: when the COLLECTIVE_LEARNING broadcast of a report has been sent, the
\* store update of the report's handler has been applied (the pattern is the
\* last of its situation's list, the resolved crisis is the stored response
\* of its type); a report whose handler fails gets no COLLECTIVE_LEARNING
\* broadcast.
C32_StoreUpdatedWhenBroadcast ==
  [][LET report == lastReport'
         broadcast == \E m \in sent' :
                        m.type = "COLLECTIVE_LEARNING" /\ m.source = report.source
     IN /\ (report.kind = "CUSTOMER_INTERACTION" /\ broadcast)
             => /\ MapHas(customerPatterns', report.subject)
                /\ Len(customerPatterns'[report.subject])
                     = 1 + (IF MapHas(customerPatterns, report.subject)
                            THEN Len(customerPatterns[report.subject]) ELSE 0)
        /\ (report.kind = "CRISIS_HANDLED" /\ report.resolved /\ broadcast)
             => /\ MapHas(crisisResponses', report.subject)
                /\ crisisResponses'[report.subject].type = report.subject
        /\ report.kind = "MALFORMED"
             => \A m \in sent' : m.type # "COLLECTIVE_LEARNING"]_vars

C32_Witness ==
  /\ lastReport.kind = "CUSTOMER_INTERACTION"
  /\ lastReport.source = "sophia"
  /\ MapHas(customerPatterns, lastReport.subject)
  /\ Len(customerPatterns[lastReport.subject]) = 2
  /\ Message("marcus", "COLLECTIVE_LEARNING", "sophia", "learning") \in sent

\* C33: a message whose type is none of the five report kinds changes no
\* store and is broadcast as one COLLECTIVE_LEARNING message to every open
\* agent other than its source.
C33_OtherTypeOnlyBroadcast ==
  [][lastReport'.kind = "OTHER" =>
       /\ UNCHANGED <<customerPatterns, crisisResponses, successPatterns,
                      emotionalMatrix, relationships, customerProfiles>>
       /\ UNCHANGED <<patternStore, crisisPlaybook, bestPractices, teamFormations>>
       /\ sent' = {Message(agentId, "COLLECTIVE_LEARNING", lastReport'.source, "learning") :
                     agentId \in open \ {lastReport'.source}}]_vars

C33_Witness ==
  /\ lastReport.kind = "OTHER"
  /\ lastReport.source = "sophia"
  /\ agents = {"sophia", "marcus", "isabella"}
  /\ open = {"sophia", "marcus"}
  /\ crisisResponses # EmptyMap
  /\ sent = {Message("marcus", "COLLECTIVE_LEARNING", "sophia", "learning")}

\* C34: the activeAgentCount that divides the confidence of a SuccessPattern
\* is the number of agents whose connection is open when the pattern is
\* promoted.
C34_DenominatorCountsOpenAgents ==
  (/\ lastReport.kind = "SUCCESS_PATTERN"
   /\ Len(patternStore[lastReport.subject]) > 3
   /\ MapHas(successPatterns, lastReport.subject))
    => successPatterns[lastReport.subject].confidence.den = Cardinality(open)

\* C35: this.agents holds at most one connection per agentId, the one made
\* last under that agentId, and a broadcast sends to an agentId at most
\* once, over the connection registered for it.
C35_OneConnectionPerAgent ==
  /\ \A i, j \in 1..Len(registry) : registry[i].id = registry[j].id => i = j
  /\ \A agentId \in AgentIds :
       socketsOpened[agentId] > 0
         => [id |-> agentId, socket |-> socketsOpened[agentId]] \in Range(registry)
  /\ \A i, j \in 1..Len(delivered) : delivered[i].id = delivered[j].id => i = j
  /\ \A i \in 1..Len(delivered) :
       delivered[i].socket = socketsOpened[delivered[i].id]
  /\ {m.to : m \in {n \in sent : n.type = "COLLECTIVE_LEARNING"}}
       = {delivered[i].id : i \in 1..Len(delivered)}

C35_Witness ==
  /\ socketsOpened["sophia"] = 2
  /\ {<<"sophia", 1>>, <<"sophia", 2>>} \subseteq openSockets
  /\ lastReport.kind = "OTHER"
  /\ lastReport.source = "marcus"
  /\ delivered = <<[id |-> "sophia", socket |-> 2]>>

\* C36: a CRISIS_HANDLED report changes the CrisisPlaybook entry of no other
\* crisis type, an EMOTIONAL_READ report changes the cell of no other
\* (detected, response) key, and the count of every cell is the length of
\* its sample list.
C36_OtherEntriesUntouched ==
  [][LET Entry(playbook, crisisType) ==
           IF MapHas(playbook, crisisType) THEN <<playbook[crisisType]>> ELSE <<>>
         Cell(matrix, pair) ==
           IF MapHas(matrix, EmotionKey(pair[1], pair[2]))
           THEN <<matrix[EmotionKey(pair[1], pair[2])]>> ELSE <<>>
     IN /\ lastReport'.kind = "CRISIS_HANDLED"
             => \A crisisType \in CrisisTypes \ {lastReport'.subject} :
                  Entry(crisisPlaybook', crisisType) = Entry(crisisPlaybook, crisisType)
        /\ lastReport'.kind = "EMOTIONAL_READ"
             => \A pair \in Detected \X Responses :
                  emotionalSubmissions'[pair] = emotionalSubmissions[pair]
                    => Cell(emotionalMatrix', pair) = Cell(emotionalMatrix, pair)
        /\ \A key \in DOMAIN emotionalMatrix' :
             emotionalMatrix'[key].count = Len(emotionalMatrix'[key].effectiveness)]_vars

\* C37: favorite_items, allergies and preferences of a CustomerProfile never
\* hold an element twice, and an update removes no element from them.
C37_PreferenceSetsOnlyGrow ==
  [][\A customerId \in DOMAIN customerProfiles' :
       LET profile == customerProfiles'[customerId]
           NoDuplicate(list) ==
             \A i, j \in 1..Len(list) : list[i] = list[j] => i = j
       IN /\ NoDuplicate(profile.favorite_items)
          /\ NoDuplicate(profile.allergies)
          /\ NoDuplicate(profile.preferences)
          /\ MapHas(customerProfiles, customerId)
               => LET before == customerProfiles[customerId]
                  IN /\ Range(before.favorite_items) \subseteq Range(profile.favorite_items)
                     /\ Range(before.allergies) \subseteq Range(profile.allergies)
                     /\ Range(before.preferences) \subseteq Range(profile.preferences)]_vars

C37_Witness ==
  /\ MapHas(customerProfiles, "c1")
  /\ Len(customerProfiles["c1"].interactions) = 2
  /\ customerProfiles["c1"].favorite_items = <<"pasta", "risotto">>
  /\ customerProfiles["c1"].allergies = <<"nuts", "shellfish">>
  /\ customerProfiles["c1"].preferences = <<"vegan", "vegetarian">>

====
